---- MODULE Spec2Model ----
(***************************************************************************)
(* ITU-R P.837 (itur/models/itu837.py): the version registry, the          *)
(* memoized query facade and the P.837-6 rain statistics formulas.         *)
(*                                                                         *)
(* numpy's floating-point numbers are modelled as decimal floating-point   *)
(* numbers of Digits significant digits, with IEEE's NaN and infinities.   *)
(***************************************************************************)
EXTENDS Integers, Sequences, FiniteSets, TLC

(***************************************************************************)
(* Floating point: m * 10^e, or NaN, or a signed infinity.                 *)
(***************************************************************************)
Digits == 5

Pow10(n) == 10 ^ n

Abs(i) == IF i < 0 THEN -i ELSE i

Sgn(i) == IF i < 0 THEN -1 ELSE IF i = 0 THEN 0 ELSE 1

Min(i, j) == IF i < j THEN i ELSE j

\* The number of decimal digits of n, 0 <= n < 2^31.
NumDigits(n) ==
    IF n < 10 THEN 1
    ELSE IF n < 100 THEN 2
    ELSE IF n < 1000 THEN 3
    ELSE IF n < 10000 THEN 4
    ELSE IF n < 100000 THEN 5
    ELSE IF n < 1000000 THEN 6
    ELSE IF n < 10000000 THEN 7
    ELSE IF n < 100000000 THEN 8
    ELSE IF n < 1000000000 THEN 9
    ELSE 10

NaN == [k |-> "nan", m |-> 0, e |-> 0]

PosInf == [k |-> "inf", m |-> 1, e |-> 0]

NegInf == [k |-> "inf", m |-> -1, e |-> 0]

Inf(s) == IF s < 0 THEN NegInf ELSE PosInf

Zero == [k |-> "num", m |-> 0, e |-> 0]

Num(m, e) == [k |-> "num", m |-> m, e |-> e]

\* s * r * 10^e, r a mantissa rounded to Digits digits (10^Digits on a carry).
NormCarry(s, r, e) ==
    IF r = Pow10(Digits) THEN Num(s * Pow10(Digits - 1), e + 1) ELSE Num(s * r, e)

\* s * a * 10^e for a > 0 of nd digits, rounded half up to Digits digits.
NormAbs(s, a, nd, e) ==
    IF nd > Digits
    THEN NormCarry(s, (a + (Pow10(nd - Digits) \div 2)) \div Pow10(nd - Digits),
                   e + (nd - Digits))
    ELSE Num(s * a * Pow10(Digits - nd), e - (Digits - nd))

\* m * 10^e rounded to Digits significant digits.
Norm(m, e) == IF m = 0 THEN Zero ELSE NormAbs(Sgn(m), Abs(m), NumDigits(Abs(m)), e)

Flt(m, e) == Norm(m, e)

FromInt(i) == Norm(i, 0)

One == FromInt(1)

Two == FromInt(2)

Half == Flt(5, -1)

IsNaN(x) == x.k = "nan"

IsNum(x) == x.k = "num"

IsZero(x) == x.k = "num" /\ x.m = 0

Sign(x) == IF x.k = "nan" THEN 0 ELSE Sgn(x.m)

Neg(x) == IF x.k = "nan" THEN NaN ELSE [x EXCEPT !.m = -x.m]

\* hi + lo with hi's mantissa shifted up by `up` digits and lo's shifted down
\* by the rest of the difference of the exponents.
AddShift(hi, lo, up) ==
    Norm(hi.m * Pow10(up) + Sgn(lo.m) * (Abs(lo.m) \div Pow10(hi.e - lo.e - up)),
         hi.e - up)

\* x + y for two nonzero numbers, hi the one of the larger exponent.
AddNum(hi, lo) ==
    IF hi.e - lo.e > Digits + 1 THEN hi
    ELSE AddShift(hi, lo, Min(hi.e - lo.e, 9 - Digits))

Add(x, y) ==
    IF IsNaN(x) \/ IsNaN(y) THEN NaN
    ELSE IF x.k = "inf" /\ y.k = "inf" THEN (IF x.m = y.m THEN x ELSE NaN)
    ELSE IF x.k = "inf" THEN x
    ELSE IF y.k = "inf" THEN y
    ELSE IF x.m = 0 THEN y
    ELSE IF y.m = 0 THEN x
    ELSE IF x.e >= y.e THEN AddNum(x, y) ELSE AddNum(y, x)

Sub(x, y) == Add(x, Neg(y))

\* a * b / 1000 for two mantissas, every product below 2^31.
MulAbs(a, b) == (a \div 1000) * b + (((a % 1000) * b) \div 1000)

Mul(x, y) ==
    IF IsNaN(x) \/ IsNaN(y) THEN NaN
    ELSE IF x.k = "inf" \/ y.k = "inf"
    THEN (IF x.m = 0 \/ y.m = 0 THEN NaN ELSE Inf(Sgn(x.m) * Sgn(y.m)))
    ELSE Norm(Sgn(x.m) * Sgn(y.m) * MulAbs(Abs(x.m), Abs(y.m)), x.e + y.e + 3)

\* One step of a long division by b: s more digits of the quotient qr[1],
\* from the remainder qr[2].
LongDivStep(qr, b, s) ==
    <<qr[1] * Pow10(s) + ((qr[2] * Pow10(s)) \div b), (qr[2] * Pow10(s)) % b>>

\* The quotient a / b of two mantissas carried to Digits + 1 decimal digits,
\* in three steps that each stay below 2^31.
LongDiv(a, b) ==
    LongDivStep(
        LongDivStep(
            LongDivStep(<<0, a>>, b, Min(9 - Digits, Digits + 1)),
            b, Min(9 - Digits, (Digits + 1) - Min(9 - Digits, Digits + 1))),
        b, (Digits + 1) - Min(9 - Digits, Digits + 1)
           - Min(9 - Digits, (Digits + 1) - Min(9 - Digits, Digits + 1)))[1]

\* numpy's true division: x/0 is an infinity, 0/0 is NaN (a warning, no error).
Div(x, y) ==
    IF IsNaN(x) \/ IsNaN(y) THEN NaN
    ELSE IF x.k = "inf" THEN (IF y.k = "inf" THEN NaN
                              ELSE Inf(x.m * (IF y.m < 0 THEN -1 ELSE 1)))
    ELSE IF y.k = "inf" THEN Zero
    ELSE IF y.m = 0 THEN (IF x.m = 0 THEN NaN ELSE Inf(Sgn(x.m)))
    ELSE IF x.m = 0 THEN Zero
    ELSE Norm(Sgn(x.m) * Sgn(y.m) * LongDiv(Abs(x.m), Abs(y.m)),
              x.e - y.e - (Digits + 1))

\* IEEE comparisons: every comparison with NaN is false.
Gt(x, y) == ~IsNaN(x) /\ ~IsNaN(y) /\ x # y /\ Sign(Sub(x, y)) > 0

Lt(x, y) == Gt(y, x)

Ge(x, y) == ~IsNaN(x) /\ ~IsNaN(y) /\ ~Gt(y, x)

Le(x, y) == Ge(y, x)

\* The integer nearest to a number x with |x| < 10^9.
Round(x) ==
    IF x.e >= 0 THEN x.m * Pow10(x.e)
    ELSE IF -x.e > 9 THEN 0
    ELSE Sgn(x.m) * ((Abs(x.m) + (Pow10(-x.e) \div 2)) \div Pow10(-x.e))

Ln10 == Flt(2302585, -6)

Sqrt10 == Flt(3162278, -6)

Square(x) == Mul(x, x)

\* The Taylor series of exp(y), for |y| < 0.15.
ExpSeries(y) ==
    Add(One, Mul(y,
    Add(One, Mul(Div(y, FromInt(2)),
    Add(One, Mul(Div(y, FromInt(3)),
    Add(One, Mul(Div(y, FromInt(4)),
    Add(One, Mul(Div(y, FromInt(5)),
    Add(One, Div(y, FromInt(6)))))))))))))

\* x * 10^n for a nonzero number x.
Scale10(x, n) == [x EXCEPT !.e = x.e + n]

\* exp(x) = 10^n * exp(r)^8, x = n ln 10 + 8 r.
ExpReduced(x, n) ==
    Scale10(Square(Square(Square(
                ExpSeries(Mul(Sub(x, Mul(FromInt(n), Ln10)), Flt(125, -3)))))), n)

\* float64: exp overflows above 709.78 and underflows to 0 below -745.13.
Exp(x) ==
    IF IsNaN(x) THEN NaN
    ELSE IF x.k = "inf" THEN (IF x.m > 0 THEN PosInf ELSE Zero)
    ELSE IF x.m = 0 THEN One
    ELSE IF Gt(x, Flt(70978, -2)) THEN PosInf
    ELSE IF Lt(x, Flt(-74513, -2)) THEN Zero
    ELSE ExpReduced(x, Round(Div(x, Ln10)))

\* 1 + w/3 + w^2/5 + ..., so that atanh(z) = z * AtanhSeries(z^2); w < 0.28.
AtanhSeries(w) ==
    Add(One, Mul(w,
    Add(Div(One, FromInt(3)), Mul(w,
    Add(Div(One, FromInt(5)), Mul(w,
    Add(Div(One, FromInt(7)), Mul(w,
    Add(Div(One, FromInt(9)), Mul(w,
    Add(Div(One, FromInt(11)), Mul(w,
    Add(Div(One, FromInt(13)), Mul(w,
    Div(One, FromInt(15))))))))))))))))

\* ln((1 + z) / (1 - z)) = 2 atanh(z).
LogRatio(z) == Mul(Mul(Two, z), AtanhSeries(Square(z)))

\* ln(f * 10^ex), f between 1/sqrt(10) and sqrt(10).
LogParts(f, ex) ==
    Add(LogRatio(Div(Sub(f, One), Add(f, One))), Mul(FromInt(ex), Ln10))

\* The mantissa of x as a number in [1, 10).
Mantissa(x) == [x EXCEPT !.e = -(Digits - 1)]

\* numpy: log(0) = -inf, log of a negative number is NaN (warnings, no error).
Log(x) ==
    IF IsNaN(x) THEN NaN
    ELSE IF x.k = "inf" THEN (IF x.m > 0 THEN PosInf ELSE NaN)
    ELSE IF x.m < 0 THEN NaN
    ELSE IF x.m = 0 THEN NegInf
    ELSE IF Gt(Mantissa(x), Sqrt10)
    THEN LogParts([x EXCEPT !.e = -Digits], x.e + Digits)
    ELSE LogParts(Mantissa(x), x.e + (Digits - 1))

\* One step of Newton's iteration for the integer square root of n.
IsqrtStep(n, r) == (r + (n \div r)) \div 2

\* The integer square root of n, 10^6 <= n < 2^31, within one unit.
Isqrt(n) ==
    IsqrtStep(n, IsqrtStep(n, IsqrtStep(n, IsqrtStep(n, IsqrtStep(n,
    IsqrtStep(n, IsqrtStep(n, IsqrtStep(n, IsqrtStep(n, 46340)))))))))

\* One step of Newton's iteration for the square root of x, from y0.
SqrtNewton(x, y0) == Mul(Half, Add(y0, Div(x, y0)))

\* numpy: sqrt of a negative number is NaN (a warning, no error).
Sqrt(x) ==
    IF IsNaN(x) THEN NaN
    ELSE IF x.k = "inf" THEN (IF x.m > 0 THEN PosInf ELSE NaN)
    ELSE IF x.m < 0 THEN NaN
    ELSE IF x.m = 0 THEN Zero
    ELSE IF x.e % 2 # 0
    THEN SqrtNewton(x, Norm(Isqrt(x.m * 1000), (x.e - 3) \div 2))
    ELSE SqrtNewton(x, Norm(Isqrt(x.m * 100), (x.e - 2) \div 2))

(***************************************************************************)
(* class _ITU837_6: the formulas at one point, from the interpolated       *)
(* values pr6, mt, beta of the three fields (numpy applies them            *)
(* elementwise).                                                           *)
(***************************************************************************)
\* Eq. 1: Pr6 * (1 - exp(-0.0079 * (Ms / Pr6))).
Eq1(pr6, Ms) == Mul(pr6, Sub(One, Exp(Mul(Neg(Flt(79, -4)), Div(Ms, pr6)))))

\* rain_percentage_probability: Ms = (1 - Beta) * Mt, then Eq. 1 with no
\* guard on Pr6.
rain_percentage_probability_P0(pr6, mt, beta) == Eq1(pr6, Mul(Sub(One, beta), mt))

\* A variant of rainfall_rate's P0 without the np.where(Pr6 > 0, ..., 0) guard.
rainfall_rate_P0_unguarded(pr6, mt, beta) == Eq1(pr6, Mul(Sub(One, beta), mt))

\* rainfall_rate: P0 = np.where(Pr6 > 0, Eq. 1, 0).
rainfall_rate_P0(pr6, mt, beta) ==
    IF Gt(pr6, Zero) THEN Eq1(pr6, Mul(Sub(One, beta), mt)) ELSE Zero

\* Eq. 2: Rp = (-B + sqrt(B^2 - 4 A C)) / (2 A).
computeRp_Eq2(A, B, C) ==
    Div(Add(Neg(B), Sqrt(Sub(Mul(B, B), Mul(Mul(FromInt(4), A), C)))), Mul(Two, A))

\* Eq. 2f, 2a, 2b, 2c: c = 26.02 b, A = a b, B = a + c ln(p / P0),
\* C = ln(p / P0).
computeRp_ABC(a, b, P0, p) ==
    computeRp_Eq2(Mul(a, b),
                  Add(a, Mul(Mul(Flt(2602, -2), b), Log(Div(p, P0)))),
                  Log(Div(p, P0)))

\* computeRp: a = 1.09 (Eq. 2d), b = (Mc + Ms) / (21797 P0) (Eq. 2e); p is
\* the enclosing rainfall_rate's argument.
computeRp(P0, Mc, Ms, p) ==
    computeRp_ABC(Flt(109, -2), Div(Add(Mc, Ms), Mul(FromInt(21797), P0)), P0, p)

\* A variant of the final condition without the np.isnan(P0) term.
rainfall_rate_mask_without_isnan(P0, p) == Gt(p, P0)

\* The condition of the final np.where: the points forced to 0.
rainfall_rate_mask(P0, p) == IsNaN(P0) \/ Gt(p, P0)

\* np.where(masked, 0, solver), with what rainfall_rate computed on the way.
\* Python evaluates the arguments of np.where before the call: computeRp
\* has run on the whole array (solved) when np.where picks 0 or its value.
np_where(P0, Mc, Ms, masked, solver) ==
    [done |-> TRUE, P0 |-> P0, Mc |-> Mc, Ms |-> Ms, solved |-> TRUE,
     solver |-> solver, masked |-> masked,
     Rp |-> IF masked THEN Zero ELSE solver]

\* Rp = np.where(np.isnan(P0) | (p > P0), 0, computeRp(P0, Mc, Ms)).
rainfall_rate_where(P0, Mc, Ms, p) ==
    np_where(P0, Mc, Ms, rainfall_rate_mask(P0, p), computeRp(P0, Mc, Ms, p))

\* rainfall_rate at one point: Mc = Beta * Mt, Ms = (1 - Beta) * Mt, P0, Rp.
rainfall_rate_Rp(pr6, mt, beta, p) ==
    rainfall_rate_where(rainfall_rate_P0(pr6, mt, beta), Mul(beta, mt),
                        Mul(Sub(One, beta), mt), p)

(***************************************************************************)
(* The datasets and the interpolator (models.itu1144, iturutils).          *)
(***************************************************************************)
Fields == {"Pr6", "Mt", "Beta"}

LatAxis == <<-5, 5>>

LonAxis == <<0, 20, 360>>

\* values[lat index][lon index] of each field's grid.
Dataset(f) ==
    IF f = "Pr6" THEN <<<<FromInt(2), FromInt(4), FromInt(2)>>,
                        <<FromInt(3), FromInt(5), FromInt(3)>>>>
    ELSE IF f = "Mt" THEN <<<<FromInt(800), FromInt(1200), FromInt(800)>>,
                            <<FromInt(600), FromInt(1000), FromInt(600)>>>>
    ELSE <<<<Flt(2, -1), Flt(4, -1), Flt(2, -1)>>,
           <<Flt(3, -1), Flt(5, -1), Flt(3, -1)>>>>

\* A query outside the axis is clamped to its nearest end.
Clamp(x, axis) ==
    IF x < axis[1] THEN axis[1]
    ELSE IF x > axis[Len(axis)] THEN axis[Len(axis)]
    ELSE x

\* The index i of the cell axis[i]..axis[i+1] that holds x (x clamped).
Cell(x, axis) ==
    IF Len(axis) = 1 THEN 1
    ELSE CHOOSE i \in 1..(Len(axis) - 1) :
            /\ axis[i] <= x
            /\ (x <= axis[i + 1])
            /\ (i > 1 => axis[i] < x)

\* The fractional position of x in cell i; 0 on a single-breakpoint axis.
Frac(x, axis, i) ==
    IF Len(axis) = 1 THEN Zero
    ELSE Div(FromInt(x - axis[i]), FromInt(axis[i + 1] - axis[i]))

\* (1-tx)(1-ty) v00 + tx (1-ty) v10 + (1-tx) ty v01 + tx ty v11.
Bilinear(v00, v10, v01, v11, tx, ty) ==
    Add(Add(Mul(Mul(Sub(One, tx), Sub(One, ty)), v00),
            Mul(Mul(tx, Sub(One, ty)), v10)),
        Add(Mul(Mul(Sub(One, tx), ty), v01),
            Mul(Mul(tx, ty), v11)))

\* The interpolation in the cell (i, j) of a clamped query (y, x).
InterpolateCell(vals, y, x, i, j) ==
    Bilinear(vals[i][j], vals[i][Min(j + 1, Len(LonAxis))],
             vals[Min(i + 1, Len(LatAxis))][j],
             vals[Min(i + 1, Len(LatAxis))][Min(j + 1, Len(LonAxis))],
             Frac(x, LonAxis, j), Frac(y, LatAxis, i))

InterpolateClamped(vals, y, x) ==
    InterpolateCell(vals, y, x, Cell(y, LatAxis), Cell(x, LonAxis))

\* bilinear_2D_interpolator(lats, lons, vals) applied to one (lat, lon).
bilinear_2D_interpolator(vals, lat, lon) ==
    InterpolateClamped(vals, Clamp(lat, LatAxis), Clamp(lon, LonAxis))

(***************************************************************************)
(* State.                                                                  *)
(***************************************************************************)
VARIABLES
    model,     \* __model: the instance's id, __version__, _Pr6, _Mt, _Beta
    loads,     \* how often each field's datasets were loaded (history)
    memory,    \* memory.cache: the stored results, by function and arguments
    last,      \* the last call of the query API and its outcome
    point,     \* the field values and p the formulas are applied to
    evalP,     \* rain_percentage_probability at point
    evalR      \* rainfall_rate at point

vars == <<model, loads, memory, last, point, evalP, evalR>>

MaxInstances == 2

\* The model classes the module defines: only _ITU837_6.
DefinedClasses == {6}

\* _ITU837_6.__init__: the three interpolators are empty (not built).
ITU837_6_init(id) ==
    [id |-> id, version |-> 6, Pr6 |-> FALSE, Mt |-> FALSE, Beta |-> FALSE]

\* A variant of __ITU837.__init__ that falls back to the latest
\* recommendation for a version it does not know, instead of raising.
ITU837_init_with_fallback(version, id) ==
    [err |-> IF version \in 1..5 THEN "NameError" ELSE "none",
     instance |-> ITU837_6_init(id)]

\* __ITU837.__init__(version): the instance, or the exception raised.
\* A class name the module does not define raises NameError.
ITU837_init(version, id) ==
    IF version \in 1..6
    THEN IF version \in DefinedClasses
         THEN [err |-> "none", instance |-> ITU837_6_init(id)]
         ELSE [err |-> "NameError", instance |-> ITU837_6_init(id)]
    ELSE [err |-> "ValueError", instance |-> ITU837_6_init(id)]

\* __ITU837.__version__
Version(m) == m.version

\* _ITU837_6.Pr6 / Mt / Beta, first half: build the field's interpolator
\* (load its datasets) if the instance holds none.
FieldBuild(self, f) == [self EXCEPT ![f] = TRUE]

\* The fields whose datasets a query on self loads: those not yet built.
FieldLoads(self) == {f \in Fields : ~self[f]}

\* _ITU837_6.Pr6 / Mt / Beta, second half: the interpolator at (lat, lon).
Pr6(lat, lon) == bilinear_2D_interpolator(Dataset("Pr6"), lat, lon)

Mt(lat, lon) == bilinear_2D_interpolator(Dataset("Mt"), lat, lon)

Beta(lat, lon) == bilinear_2D_interpolator(Dataset("Beta"), lat, lon)

\* _ITU837_6.rain_percentage_probability(lat_d, lon_d)
ITU837_6_rain_percentage_probability(self, lat, lon) ==
    [self |-> FieldBuild(FieldBuild(FieldBuild(self, "Pr6"), "Mt"), "Beta"),
     built |-> FieldLoads(self),
     val |-> rain_percentage_probability_P0(Pr6(lat, lon), Mt(lat, lon), Beta(lat, lon))]

\* _ITU837_6.rainfall_rate(lat_d, lon_d, p)
ITU837_6_rainfall_rate(self, lat, lon, p) ==
    [self |-> FieldBuild(FieldBuild(FieldBuild(self, "Pr6"), "Mt"), "Beta"),
     built |-> FieldLoads(self),
     val |-> rainfall_rate_Rp(Pr6(lat, lon), Mt(lat, lon), Beta(lat, lon), p).Rp]

\* A variant of np.mod: np.fmod, whose result has the sign of the dividend.
np_fmod(lon, n) == IF lon < 0 THEN -((-lon) % n) ELSE lon % n

\* np.mod(lon, 360): the result has the sign of the divisor.
np_mod(lon, n) == lon % n

NoCall ==
    [op |-> "none", arg |-> 0, key |-> <<>>, err |-> "none", version |-> 0,
     val |-> Zero, hit |-> FALSE, passed |-> <<>>, by |-> 0]

NoEval == [done |-> FALSE, val |-> Zero]

NoRate ==
    [done |-> FALSE, P0 |-> Zero, Mc |-> Zero, Ms |-> Zero, solved |-> FALSE,
     solver |-> Zero, masked |-> FALSE, Rp |-> Zero]

\* The inputs of the query API.
VersionInputs == 0..7

QueryRPP == {<<-5, 10>>, <<-5, 370>>}

QueryRR == {<<5, -350, One>>, <<5, 10, One>>}

\* The field values and exceedance percentages the formulas are applied to.
Pr6Values == {NaN, FromInt(-1), Zero, FromInt(2), FromInt(5)}

MtValues == {NaN, Zero, FromInt(100), FromInt(1000)}

BetaValues == {Zero, Flt(25, -2), One, Flt(15, -1)}

PValues == {Zero, Flt(1, -2), One, FromInt(3)}

Points == [Pr6 : Pr6Values, Mt : MtValues, Beta : BetaValues, p : PValues]

Init ==
    /\ model = ITU837_init(6, 0).instance
    /\ loads = [f \in Fields |-> 0]
    /\ memory = {}
    /\ last = NoCall
    /\ point = [Pr6 |-> FromInt(2), Mt |-> FromInt(1000), Beta |-> Flt(25, -2), p |-> One]
    /\ evalP = NoEval
    /\ evalR = NoRate

(***************************************************************************)
(* The query API.                                                          *)
(***************************************************************************)
\* change_version(new_version): __model = __ITU837(new_version); an
\* exception of the constructor leaves __model as it was.
change_version(new_version) ==
    \E r \in {ITU837_init(new_version, model.id + 1)} :
        /\ r.err = "none" => model.id < MaxInstances
        /\ model' = IF r.err = "none" THEN r.instance ELSE model
        /\ last' = [NoCall EXCEPT !.op = "change_version", !.arg = new_version,
                                  !.err = r.err]
        /\ UNCHANGED <<loads, memory, point, evalP, evalR>>

\* get_version()
get_version ==
    /\ last' = [NoCall EXCEPT !.op = "get_version", !.version = Version(model)]
    /\ UNCHANGED <<model, loads, memory, point, evalP, evalR>>

Cached(key) == \E c \in memory : c.key = key

Lookup(key) == CHOOSE c \in memory : c.key = key

\* A memory.cache'd function: a stored result is returned without running
\* the body; otherwise the body runs on the active model and its result is
\* stored under the arguments of the call.
MemoryCache(key, body, passed) ==
    IF Cached(key)
    THEN /\ last' = [NoCall EXCEPT !.op = key[1], !.key = key, !.hit = TRUE,
                                   !.val = Lookup(key).val, !.by = Lookup(key).by]
         /\ UNCHANGED <<model, loads, memory>>
    ELSE \E r \in {body} :
         /\ model' = r.self
         /\ loads' = [f \in Fields |-> IF f \in r.built THEN loads[f] + 1 ELSE loads[f]]
         /\ memory' = memory \cup {[key |-> key, val |-> r.val, by |-> model.id]}
         /\ last' = [NoCall EXCEPT !.op = key[1], !.key = key, !.val = r.val,
                                   !.passed = passed, !.by = model.id]

\* rain_percentage_probability(lat, lon)
rain_percentage_probability(lat, lon) ==
    /\ MemoryCache(<<"rain_percentage_probability", lat, lon>>,
                   ITU837_6_rain_percentage_probability(model, lat, np_mod(lon, 360)),
                   <<lat, np_mod(lon, 360)>>)
    /\ UNCHANGED <<point, evalP, evalR>>

\* rainfall_rate(lat, lon, p)
rainfall_rate(lat, lon, p) ==
    /\ MemoryCache(<<"rainfall_rate", lat, lon, p>>,
                   ITU837_6_rainfall_rate(model, lat, np_mod(lon, 360), p),
                   <<lat, np_mod(lon, 360)>>)
    /\ UNCHANGED <<point, evalP, evalR>>

Next ==
    \/ \E n \in VersionInputs : change_version(n)
    \/ get_version
    \/ \E q \in QueryRPP : rain_percentage_probability(q[1], q[2])
    \/ \E q \in QueryRR : rainfall_rate(q[1], q[2], q[3])

Spec == Init /\ [][Next]_vars

(***************************************************************************)
(* The formulas applied to the field values of one point.                  *)
(***************************************************************************)
InitEval ==
    /\ model = ITU837_init(6, 0).instance
    /\ loads = [f \in Fields |-> 0]
    /\ memory = {}
    /\ last = NoCall
    /\ point \in Points
    /\ evalP = NoEval
    /\ evalR = NoRate

EvalRainPercentageProbability ==
    /\ evalP' = [done |-> TRUE,
                 val |-> rain_percentage_probability_P0(point.Pr6, point.Mt, point.Beta)]
    /\ UNCHANGED <<model, loads, memory, last, point, evalR>>

EvalRainfallRate ==
    /\ evalR' = rainfall_rate_Rp(point.Pr6, point.Mt, point.Beta, point.p)
    /\ UNCHANGED <<model, loads, memory, last, point, evalP>>

NextEval == EvalRainPercentageProbability \/ EvalRainfallRate

SpecEval == InitEval /\ [][NextEval]_vars
(***************************************************************************)
(* Properties.                                                             *)
(***************************************************************************)
QueryOps == {"rain_percentage_probability", "rainfall_rate"}

\* C1: for every k in 1..6, change_version(k) completes without error and
\* the version get_version() reports right after it is k.
C1_VersionRoundTrip ==
    (last.op = "change_version" /\ last.arg \in 1..6)
        => (last.err = "none" /\ Version(model) = last.arg)

\* C2: change_version(n) for n outside 1..6 fails with the invalid-version
\* error (ValueError) and leaves the active model, and so the version
\* get_version() reports, exactly as it was.
C2_InvalidVersionRejected ==
    [][(last'.op = "change_version" /\ last'.arg \notin 1..6)
          => (/\ last'.err = "ValueError"
              /\ model' = model
              /\ Version(model') = Version(model))]_vars

\* An invalid version was rejected after an earlier change had installed a
\* new model whose interpolators a query had built.
C2_Witness ==
    /\ last.op = "change_version"
    /\ last.arg \notin 1..6
    /\ last.err = "ValueError"
    /\ model.id > 0
    /\ model.Pr6 /\ model.Mt /\ model.Beta

\* C3: a version change clears or bypasses the memoization cache: every
\* query is answered with a value computed by the model the latest
\* successful change_version installed, never with one memoized before it.
C3_NoResultFromBeforeVersionChange ==
    last.op \in QueryOps => last.by = model.id

\* The positive root of Eq. 2 from P0, Mc, Ms and p, as the recommendation
\* states it.
PositiveRoot(P0, Mc, Ms, p) ==
    (LET b == Div(Add(Mc, Ms), Mul(FromInt(21797), P0))
         A == Mul(Flt(109, -2), b)
         C == Log(Div(p, P0))
         B == Add(Flt(109, -2), Mul(Mul(Flt(2602, -2), b), C))
     IN  Div(Sub(Sqrt(Sub(Square(B), Mul(FromInt(4), Mul(A, C)))), B),
             Mul(FromInt(2), A)))

C5_ZeroWherePr6Zero ==
    (evalP.done /\ IsZero(point.Pr6) /\ IsNum(point.Mt) /\ IsNum(point.Beta))
        => evalP.val = Zero

C7_BuiltAtMostOnce == \A f \in Fields : loads[f] <= 1

\* C8: at a point where p > P0 or P0 is not a number, rainfall_rate never
\* evaluates the quadratic solver.
C8_SolverNotEvaluatedWhereInvalid ==
    (evalR.done /\ (IsNaN(evalR.P0) \/ Gt(point.p, evalR.P0))) => ~evalR.solved

\* C9: for every Pr6, Mt and Beta at a point, the P0 inside rainfall_rate
\* equals the P0 rain_percentage_probability returns.
C9_SameP0 ==
    (evalP.done /\ evalR.done /\ IsNum(point.Mt) /\ ~IsNaN(point.Pr6))
        => evalR.P0 = evalP.val

====
